---- MODULE Spec2Model ----
(***************************************************************************)
(* BpmnModdleParser (src/src/utils/BpmnModdleParser.ts): the conversion of *)
(* a bpmn-moddle process graph into a nested process tree plus the table   *)
(* of node infos kept in the parser instance.                              *)
(*                                                                         *)
(* One parser instance is modelled.  parseBpmnModdle is called on it up to *)
(* MaxCalls times, each time on a graph drawn from Graphs.  The recursion  *)
(* parseProcess / parseProcessFlowUntilElement / parseProcessSegment /     *)
(* parseSplittedControlflow is unfolded into an explicit call stack, one   *)
(* action per step between two control points of the code.                 *)
(*                                                                         *)
(* Input domain: graphs as bpmn-moddle hands them over.  A collection that *)
(* holds nothing may be absent or an empty array (flowElements, outgoing), *)
(* a reference may be absent (sourceRef and targetRef of a flow), $attrs   *)
(* may lack "rpa:operation", name may be missing, and rootElements[0] is a *)
(* Process.                                                                *)
(*                                                                         *)
(* A walk that never comes to an end runs until the engine stops it: an    *)
(* array cannot grow beyond MaxArrayLength elements, and the call stack    *)
(* and the heap not beyond the limits the engine was started with:         *)
(* MinStackDepth or MaxStackDepth frames, MinHeap or MaxHeap slots.        *)
(***************************************************************************)
EXTENDS Integers, Sequences, FiniteSets, TLC

\* Number of parseBpmnModdle calls made on the one parser instance.
MaxCalls == 2

\* Longest chain of tasks in the family of linear processes.
MaxTasks == 3

\* Number of frames (calls of parseProcess, parseProcessFlowUntilElement and
\* parseSplittedControlflow) the call stack of the engine can hold: the
\* smallest and the largest limit an engine is started with.  MinStackDepth
\* is larger than the nesting of any acyclic graph of the catalog.
MinStackDepth == 8

\* The heap of the engine, in slots: the smallest and the largest limit an
\* engine is started with.  MinHeap holds what the walk of an acyclic graph
\* of the catalog, or MinStackDepth nested calls, keep alive, and not what
\* MaxStackDepth nested calls do; MaxHeap holds that too.
MinHeap == 22

MaxStackDepth == 14

\* Number of elements an array of the engine can hold: the push that would
\* make parsedProcess longer fails.  An array of that length fits in a heap
\* of MaxHeap slots and not in one of MinHeap slots.
MaxArrayLength == 24

MaxHeap == 32

-----------------------------------------------------------------------------
(* Values of the input graph                                               *)

\* JavaScript undefined, where a node reference is expected.
Undefined == "undefined"

StartEvent == "bpmn:StartEvent"
EndEvent == "bpmn:EndEvent"
TaskType == "bpmn:Task"
ParallelGateway == "bpmn:ParallelGateway"
ExclusiveGateway == "bpmn:ExclusiveGateway"
SubProcessType == "bpmn:SubProcess"
ProcessType == "bpmn:Process"
SequenceFlowType == "bpmn:SequenceFlow"
ServiceTask == "bpmn:ServiceTask"

\* A flow node (or process) of bpmn-moddle.  hasOutgoing tells whether the
\* outgoing property is there; when it is, outgoing is the array, possibly
\* empty, and outgoing[i] stands for outgoing[i].targetRef (a node id or
\* Undefined).  hasOp tells whether "rpa:operation" is a key of $attrs, op is
\* its value.  name "" is a missing or empty name.  hasFlowElements tells
\* whether the flowElements property is there; when it is, flowElements is
\* the array, possibly empty.
Element(id, type, name, hasOp, op, hasOutgoing, out, hasFlowElements, flowElements) ==
  [id |-> id, type |-> type, name |-> name, hasOp |-> hasOp, op |-> op,
   hasOutgoing |-> hasOutgoing, outgoing |-> out,
   hasFlowElements |-> hasFlowElements, flowElements |-> flowElements]

\* A member of flowElements: a sequence flow (src or tgt Undefined when the
\* reference is absent), or a node (no source, no target).
Flow(src, tgt) == [type |-> SequenceFlowType, sourceRef |-> src, targetRef |-> tgt]
Member(type) == [type |-> type, sourceRef |-> Undefined, targetRef |-> Undefined]

\* Elements with an outgoing array out; <<>> is the empty array.
Start(id, out) == Element(id, StartEvent, "", FALSE, "", TRUE, out, FALSE, <<>>)
Task(id, name, op, out) == Element(id, TaskType, name, TRUE, op, TRUE, out, FALSE, <<>>)
TaskNoOp(id, name, out) ==
  Element(id, TaskType, name, FALSE, "", TRUE, out, FALSE, <<>>)
Gateway(id, type, name, op, out) ==
  Element(id, type, name, TRUE, op, TRUE, out, FALSE, <<>>)
GatewayNoOp(id, type, out) == Element(id, type, "", FALSE, "", TRUE, out, FALSE, <<>>)
SubProcess(id, name, op, out, fe) ==
  Element(id, SubProcessType, name, TRUE, op, TRUE, out, TRUE, fe)
SubProcessNoOp(id, name, out, fe) ==
  Element(id, SubProcessType, name, FALSE, "", TRUE, out, TRUE, fe)

\* The element without its outgoing property.
NoOutgoing(element) == [element EXCEPT !.hasOutgoing = FALSE, !.outgoing = <<>>]

\* Elements that have no outgoing property.
End(id) == Element(id, EndEvent, "", FALSE, "", FALSE, <<>>, FALSE, <<>>)
Process(id, fe) == Element(id, ProcessType, "", FALSE, "", FALSE, <<>>, TRUE, fe)
ProcessOp(id, name, op, fe) ==
  Element(id, ProcessType, name, TRUE, op, FALSE, <<>>, TRUE, fe)

\* The process or sub-process without its flowElements property.
NoFlowElements(process) ==
  [process EXCEPT !.hasFlowElements = FALSE, !.flowElements = <<>>]

\* The nodes of a graph, by id.
ById(S) == [i \in {n.id : n \in S} |-> CHOOSE n \in S : n.id = i]

\* A Definitions object: rootElements[0] is nodes[root].  joinOf is not read
\* by the parser: for a block-structured graph it names, for every split
\* gateway, the join gateway that closes it.
Definitions(name, root, S, joinOf) ==
  [name |-> name, root |-> root, nodes |-> ById(S), joinOf |-> joinOf]

NoJoins == [x \in {} |-> Undefined]

-----------------------------------------------------------------------------
(* The graphs parseBpmnModdle is called on                                 *)

TaskIds == <<"T1", "T2", "T3", "T4", "T5", "T6">>
TaskNames == <<"Open", "", "Save", "", "Close", "">>

\* Start -> T1 -> ... -> Tn -> End, every task with an operation.
LinearTask(i, n) ==
  Task(TaskIds[i], TaskNames[i], "click", <<IF i = n THEN "E" ELSE TaskIds[i + 1]>>)

LinearFlows(n) ==
  [i \in 1..n |-> Flow(TaskIds[i], IF i = n THEN "E" ELSE TaskIds[i + 1])]

Linear(n) ==
  LET first == IF n = 0 THEN "E" ELSE TaskIds[1]
  IN Definitions(<<"linear", n>>, "Process_1",
       {Start("S", <<first>>), End("E"),
        Process("Process_1",
                <<Member(StartEvent)>> \o LinearFlows(n) \o <<Flow("S", first)>>)}
       \cup {LinearTask(i, n) : i \in 1..n},
       NoJoins)

LinearGraphs == {Linear(n) : n \in 0..MaxTasks}

\* The flowElements of a process whose start event S leads to node first.
Body(first) == <<Member(StartEvent), Member(TaskType), Flow("S", first)>>

\* Start -> P1 -> {A, B} -> J1 -> End
GPar ==
  Definitions(<<"par", 0>>, "Process_1",
    {Process("Process_1", Body("P1")), Start("S", <<"P1">>),
     Gateway("P1", ParallelGateway, "Fork", "and", <<"A", "B">>),
     Task("A", "", "click", <<"J1">>), Task("B", "Type", "type", <<"J1">>),
     GatewayNoOp("J1", ParallelGateway, <<"E">>), End("E")},
    [x \in {"P1"} |-> "J1"])

\* Start -> A -> X1 -> {B, C -> D} -> XJ1 -> F -> End
GXor ==
  Definitions(<<"xor", 0>>, "Process_1",
    {Process("Process_1", Body("A")), Start("S", <<"A">>),
     Task("A", "", "click", <<"X1">>),
     Gateway("X1", ExclusiveGateway, "", "choice", <<"B", "C">>),
     Task("B", "", "type", <<"XJ1">>),
     Task("C", "", "read", <<"D">>), Task("D", "Send", "send", <<"XJ1">>),
     Gateway("XJ1", ExclusiveGateway, "Merge", "merge", <<"F">>),
     Task("F", "", "close", <<"E">>), End("E")},
    [x \in {"X1"} |-> "XJ1"])

\* Start -> P1 -> {X1 -> {A, B} -> XJ1, C} -> J1 -> D -> End
GXorInPar ==
  Definitions(<<"xor-in-par", 0>>, "Process_1",
    {Process("Process_1", Body("P1")), Start("S", <<"P1">>),
     Gateway("P1", ParallelGateway, "", "and", <<"X1", "C">>),
     Gateway("X1", ExclusiveGateway, "", "choice", <<"A", "B">>),
     Task("A", "", "click", <<"XJ1">>), Task("B", "", "type", <<"XJ1">>),
     GatewayNoOp("XJ1", ExclusiveGateway, <<"J1">>),
     Task("C", "", "read", <<"J1">>),
     GatewayNoOp("J1", ParallelGateway, <<"D">>),
     Task("D", "", "send", <<"E">>), End("E")},
    [x \in {"P1", "X1"} |-> IF x = "P1" THEN "J1" ELSE "XJ1"])

\* Start -> P1 -> {A -> P2 -> {B, C} -> J2, D} -> J1 -> End
GParInPar ==
  Definitions(<<"par-in-par", 0>>, "Process_1",
    {Process("Process_1", Body("P1")), Start("S", <<"P1">>),
     Gateway("P1", ParallelGateway, "", "and", <<"A", "D">>),
     Task("A", "", "click", <<"P2">>),
     Gateway("P2", ParallelGateway, "", "and", <<"B", "C">>),
     Task("B", "", "type", <<"J2">>), Task("C", "", "read", <<"J2">>),
     GatewayNoOp("J2", ParallelGateway, <<"J1">>),
     Task("D", "", "send", <<"J1">>),
     GatewayNoOp("J1", ParallelGateway, <<"E">>), End("E")},
    [x \in {"P1", "P2"} |-> IF x = "P1" THEN "J1" ELSE "J2"])

\* The flowElements of a sub-process whose start event SS leads to node first.
SubBody(first) == <<Member(TaskType), Flow("U", "SE"), Flow("SS", first)>>

\* Start -> A -> Sub[SS -> U -> V -> SE] -> B -> End, Sub with an operation
GSubOp ==
  Definitions(<<"sub-op", 0>>, "Process_1",
    {Process("Process_1", Body("A")), Start("S", <<"A">>),
     Task("A", "", "click", <<"Sub">>),
     SubProcess("Sub", "Login", "login", <<"B">>, SubBody("U")),
     Start("SS", <<"U">>), Task("U", "User", "type", <<"V">>),
     Task("V", "", "type", <<"SE">>), End("SE"),
     Task("B", "", "send", <<"E">>), End("E")},
    NoJoins)

\* Start -> Sub[SS -> U -> SE] -> B -> End, Sub without an operation
GSubNoOp ==
  Definitions(<<"sub-noop", 0>>, "Process_1",
    {Process("Process_1", Body("Sub")), Start("S", <<"Sub">>),
     SubProcessNoOp("Sub", "Login", <<"B">>, SubBody("U")),
     Start("SS", <<"U">>), Task("U", "", "type", <<"SE">>), End("SE"),
     Task("B", "", "send", <<"E">>), End("E")},
    NoJoins)

\* Start -> A -> Sub[SS -> SE] -> End, the sub-process last and empty
GSubLast ==
  Definitions(<<"sub-last", 0>>, "Process_1",
    {Process("Process_1", Body("A")), Start("S", <<"A">>),
     Task("A", "", "click", <<"Sub">>),
     SubProcess("Sub", "", "noop", <<"E">>, <<Flow("SS", "SE")>>),
     Start("SS", <<"SE">>), End("SE"), End("E")},
    NoJoins)

\* Start -> A -> End in a process that itself carries an operation
GProcOp ==
  Definitions(<<"proc-op", 0>>, "Process_1",
    {ProcessOp("Process_1", "Main", "run", Body("A")), Start("S", <<"A">>),
     Task("A", "Press", "click", <<"E">>), End("E")},
    NoJoins)

\* Start -> A -> B -> C -> End, B without an operation
GMissingTop ==
  Definitions(<<"missing-top", 0>>, "Process_1",
    {Process("Process_1", Body("A")), Start("S", <<"A">>),
     Task("A", "", "click", <<"B">>), TaskNoOp("B", "Type", <<"C">>),
     Task("C", "", "read", <<"E">>), End("E")},
    NoJoins)

\* Start -> P1 -> {A, B} -> J1 -> C -> End, A without an operation
GMissingBranch ==
  Definitions(<<"missing-branch", 0>>, "Process_1",
    {Process("Process_1", Body("P1")), Start("S", <<"P1">>),
     Gateway("P1", ParallelGateway, "", "and", <<"A", "B">>),
     TaskNoOp("A", "", <<"J1">>), Task("B", "", "type", <<"J1">>),
     GatewayNoOp("J1", ParallelGateway, <<"C">>),
     Task("C", "", "read", <<"E">>), End("E")},
    NoJoins)

\* Start -> A -> Sub[SS -> U -> V -> SE] -> B -> End, U without an operation
GMissingSub ==
  Definitions(<<"missing-sub", 0>>, "Process_1",
    {Process("Process_1", Body("A")), Start("S", <<"A">>),
     Task("A", "", "click", <<"Sub">>),
     SubProcess("Sub", "Login", "login", <<"B">>, SubBody("U")),
     Start("SS", <<"U">>), TaskNoOp("U", "", <<"V">>),
     Task("V", "", "type", <<"SE">>), End("SE"),
     Task("B", "", "send", <<"E">>), End("E")},
    NoJoins)

\* Start -> P1 -> {A, B} -> J1 -> End, the split P1 without an operation
GMissingGateway ==
  Definitions(<<"missing-gateway", 0>>, "Process_1",
    {Process("Process_1", Body("P1")), Start("S", <<"P1">>),
     GatewayNoOp("P1", ParallelGateway, <<"A", "B">>),
     Task("A", "", "click", <<"J1">>), Task("B", "", "type", <<"J1">>),
     GatewayNoOp("J1", ParallelGateway, <<"E">>), End("E")},
    NoJoins)

\* A -> End with a start event that no sequence flow leaves
GNoStart ==
  Definitions(<<"no-start", 0>>, "Process_1",
    {Process("Process_1", <<Member(StartEvent), Flow("A", "E")>>),
     NoOutgoing(Start("S", <<>>)), Task("A", "", "click", <<"E">>), End("E")},
    NoJoins)

\* The flow leaving the start event has no target
GStartNoTarget ==
  Definitions(<<"start-no-target", 0>>, "Process_1",
    {Process("Process_1", <<Flow("A", "E"), Flow("S", Undefined)>>),
     Start("S", <<Undefined>>), Task("A", "", "click", <<"E">>), End("E")},
    NoJoins)

\* Start -> A -> Sub[U -> SE, no flow from a start event] -> B -> End
GSubNoStart ==
  Definitions(<<"sub-no-start", 0>>, "Process_1",
    {Process("Process_1", Body("A")), Start("S", <<"A">>),
     Task("A", "", "click", <<"Sub">>),
     SubProcess("Sub", "Login", "login", <<"B">>, <<Member(TaskType), Flow("U", "SE")>>),
     Task("U", "", "type", <<"SE">>), End("SE"),
     Task("B", "", "send", <<"E">>), End("E")},
    NoJoins)

\* Start -> P1 -> {A -> J1, B -> J2}, J1 -> End, J2 -> End
GInconsistent ==
  Definitions(<<"inconsistent", 0>>, "Process_1",
    {Process("Process_1", Body("P1")), Start("S", <<"P1">>),
     Gateway("P1", ParallelGateway, "", "and", <<"A", "B">>),
     Task("A", "", "click", <<"J1">>), Task("B", "", "type", <<"J2">>),
     GatewayNoOp("J1", ParallelGateway, <<"E">>),
     GatewayNoOp("J2", ParallelGateway, <<"E">>), End("E")},
    NoJoins)

\* Start -> X1 -> {A -> XJ1, B -> XJ1, C -> XJ2}, XJ1 -> End, XJ2 -> End
GInconsistentLast ==
  Definitions(<<"inconsistent-last", 0>>, "Process_1",
    {Process("Process_1", Body("X1")), Start("S", <<"X1">>),
     Gateway("X1", ExclusiveGateway, "", "choice", <<"A", "B", "C">>),
     Task("A", "", "click", <<"XJ1">>), Task("B", "", "type", <<"XJ1">>),
     Task("C", "", "read", <<"XJ2">>),
     GatewayNoOp("XJ1", ExclusiveGateway, <<"E">>),
     GatewayNoOp("XJ2", ExclusiveGateway, <<"E">>), End("E")},
    NoJoins)

\* Start -> P1 -> {A -> J1, B (dead end), C -> J2}, J1 -> End, J2 -> End
GInconsistentDeadEnd ==
  Definitions(<<"inconsistent-dead-end", 0>>, "Process_1",
    {Process("Process_1", Body("P1")), Start("S", <<"P1">>),
     Gateway("P1", ParallelGateway, "", "and", <<"A", "B", "C">>),
     Task("A", "", "click", <<"J1">>), NoOutgoing(Task("B", "", "type", <<>>)),
     Task("C", "", "read", <<"J2">>),
     GatewayNoOp("J1", ParallelGateway, <<"E">>),
     GatewayNoOp("J2", ParallelGateway, <<"E">>), End("E")},
    NoJoins)

\* Start -> P1 -> {A -> J1, B (no outgoing)}, J1 -> C -> End
GDeadEndOne ==
  Definitions(<<"dead-end-one", 0>>, "Process_1",
    {Process("Process_1", Body("P1")), Start("S", <<"P1">>),
     Gateway("P1", ParallelGateway, "", "and", <<"A", "B">>),
     Task("A", "", "click", <<"J1">>), NoOutgoing(Task("B", "", "type", <<>>)),
     GatewayNoOp("J1", ParallelGateway, <<"C">>),
     Task("C", "", "read", <<"E">>), End("E")},
    NoJoins)

\* Start -> P1 -> {B (no outgoing), D -> A -> J1}, J1 -> C -> End
GDeadEndFirst ==
  Definitions(<<"dead-end-first", 0>>, "Process_1",
    {Process("Process_1", Body("P1")), Start("S", <<"P1">>),
     Gateway("P1", ParallelGateway, "", "and", <<"B", "D">>),
     NoOutgoing(Task("B", "", "type", <<>>)),
     Task("D", "", "send", <<"A">>), Task("A", "", "click", <<"J1">>),
     GatewayNoOp("J1", ParallelGateway, <<"C">>),
     Task("C", "", "read", <<"E">>), End("E")},
    NoJoins)

\* Start -> X1 -> {A (no outgoing), B -> E2 (an end event)}
GDeadEndAll ==
  Definitions(<<"dead-end-all", 0>>, "Process_1",
    {Process("Process_1", Body("X1")), Start("S", <<"X1">>),
     Gateway("X1", ExclusiveGateway, "", "choice", <<"A", "B">>),
     NoOutgoing(Task("A", "", "click", <<>>)), Task("B", "", "type", <<"E2">>),
     End("E2"),
     Task("C", "", "read", <<"E">>), End("E")},
    NoJoins)

\* Start -> P1 -> {A -> J1, a flow without target, a service task}, J1 -> End
GDeadEndKinds ==
  Definitions(<<"dead-end-kinds", 0>>, "Process_1",
    {Process("Process_1", Body("P1")), Start("S", <<"P1">>),
     Gateway("P1", ParallelGateway, "", "and", <<"A", Undefined, "V">>),
     Task("A", "", "click", <<"J1">>),
     Element("V", ServiceTask, "", TRUE, "call", TRUE, <<"J1">>, FALSE, <<>>),
     GatewayNoOp("J1", ParallelGateway, <<"E">>), End("E")},
    NoJoins)

\* Start -> A -> J1, a gateway without outgoing property, outside any split
GJoinOnly ==
  Definitions(<<"join-only", 0>>, "Process_1",
    {Process("Process_1", Body("A")), Start("S", <<"A">>),
     Task("A", "", "click", <<"J1">>),
     NoOutgoing(Gateway("J1", ParallelGateway, "", "and", <<>>)), End("E")},
    NoJoins)

\* Start -> A -> J1, a gateway whose outgoing array is empty
GJoinOnlyEmpty ==
  Definitions(<<"join-only-empty", 0>>, "Process_1",
    {Process("Process_1", Body("A")), Start("S", <<"A">>),
     Task("A", "", "click", <<"J1">>),
     Gateway("J1", ParallelGateway, "", "and", <<>>), End("E")},
    NoJoins)

\* Start -> T1, a task whose outgoing array is empty
GLastEmpty ==
  Definitions(<<"last-empty", 0>>, "Process_1",
    {Process("Process_1", Body("T1")), Start("S", <<"T1">>),
     Task("T1", "Open", "click", <<>>), End("E")},
    NoJoins)

\* Start -> P1 -> {A -> J1, B (outgoing array empty)}, J1 -> C -> End
GDeadEndEmpty ==
  Definitions(<<"dead-end-empty", 0>>, "Process_1",
    {Process("Process_1", Body("P1")), Start("S", <<"P1">>),
     Gateway("P1", ParallelGateway, "", "and", <<"A", "B">>),
     Task("A", "", "click", <<"J1">>), Task("B", "", "type", <<>>),
     GatewayNoOp("J1", ParallelGateway, <<"C">>),
     Task("C", "", "read", <<"E">>), End("E")},
    NoJoins)

\* Start -> A -> Sub[SS -> SE], a sub-process whose outgoing array is empty
GSubEmpty ==
  Definitions(<<"sub-empty", 0>>, "Process_1",
    {Process("Process_1", Body("A")), Start("S", <<"A">>),
     Task("A", "", "click", <<"Sub">>),
     SubProcess("Sub", "Login", "login", <<>>, <<Flow("SS", "SE")>>),
     Start("SS", <<"SE">>), End("SE"), End("E")},
    NoJoins)

\* Start -> P1 -> A -> X1 -> B -> P1: a cycle through two gateways of
\* different kinds
GRec ==
  Definitions(<<"rec", 0>>, "Process_1",
    {Process("Process_1", Body("P1")), Start("S", <<"P1">>),
     Gateway("P1", ParallelGateway, "", "and", <<"A">>),
     Task("A", "", "click", <<"X1">>),
     Gateway("X1", ExclusiveGateway, "", "choice", <<"B">>),
     Task("B", "", "type", <<"P1">>), End("E")},
    NoJoins)

\* A process that holds nothing: no flowElements property
GNoFlowElements ==
  Definitions(<<"no-flow-elements", 0>>, "Process_1",
    {NoFlowElements(Process("Process_1", <<>>))},
    NoJoins)

\* A process whose flowElements array is empty
GEmptyFlowElements ==
  Definitions(<<"empty-flow-elements", 0>>, "Process_1",
    {Process("Process_1", <<>>)},
    NoJoins)

\* Start -> A -> Sub[nothing inside, no flowElements property] -> B -> End
GSubNoFlowElements ==
  Definitions(<<"sub-no-flow-elements", 0>>, "Process_1",
    {Process("Process_1", Body("A")), Start("S", <<"A">>),
     Task("A", "", "click", <<"Sub">>),
     NoFlowElements(SubProcess("Sub", "Login", "login", <<"B">>, <<>>)),
     Task("B", "", "send", <<"E">>), End("E")},
    NoJoins)

\* Start -> A -> End, and before the flow from the start event a flow whose
\* source is absent
GFlowNoSource ==
  Definitions(<<"flow-no-source", 0>>, "Process_1",
    {Process("Process_1", <<Flow(Undefined, "A"), Flow("S", "A"), Flow("A", "E")>>),
     Start("S", <<"A">>), Task("A", "", "click", <<"E">>), End("E")},
    NoJoins)

\* Start -> A -> End, and behind the flow from the start event a flow whose
\* source is absent
GFlowNoSourceLater ==
  Definitions(<<"flow-no-source-later", 0>>, "Process_1",
    {Process("Process_1", <<Flow("S", "A"), Flow(Undefined, "A"), Flow("A", "E")>>),
     Start("S", <<"A">>), Task("A", "", "click", <<"E">>), End("E")},
    NoJoins)

\* Start -> A -> B -> A: a cycle of tasks
GCycle ==
  Definitions(<<"cycle", 0>>, "Process_1",
    {Process("Process_1", Body("A")), Start("S", <<"A">>),
     Task("A", "", "click", <<"B">>), Task("B", "", "type", <<"A">>),
     End("E")},
    NoJoins)

\* Start -> X1 -> A -> X2 -> {X1, End}: a loop closed through gateways
GLoop ==
  Definitions(<<"loop", 0>>, "Process_1",
    {Process("Process_1", Body("X1")), Start("S", <<"X1">>),
     Gateway("X1", ExclusiveGateway, "", "merge", <<"A">>),
     Task("A", "", "click", <<"X2">>),
     Gateway("X2", ExclusiveGateway, "", "choice", <<"X1", "E">>),
     End("E")},
    NoJoins)

Graphs ==
  LinearGraphs \cup
  {GPar, GXor, GXorInPar, GParInPar, GSubOp, GSubNoOp, GSubLast, GProcOp,
   GMissingTop, GMissingBranch, GMissingSub, GMissingGateway,
   GNoStart, GStartNoTarget, GSubNoStart,
   GInconsistent, GInconsistentLast, GInconsistentDeadEnd,
   GDeadEndOne, GDeadEndFirst, GDeadEndAll, GDeadEndKinds,
   GJoinOnly, GJoinOnlyEmpty, GLastEmpty, GDeadEndEmpty, GSubEmpty,
   GNoFlowElements, GEmptyFlowElements, GSubNoFlowElements,
   GFlowNoSource, GFlowNoSourceLater,
   GCycle, GLoop, GRec}

-----------------------------------------------------------------------------
(* The process tree                                                        *)

\* ProcessTreeStructure values, in one shape: a string, an object with one
\* key (s) and its value (c[1]), or an array of values (c).
Str(s) == [t |-> "string", s |-> s, c |-> <<>>]
Obj(key, value) == [t |-> "object", s |-> key, c |-> <<value>>]
List(xs) == [t |-> "array", s |-> "", c |-> xs]
NoTree == [t |-> "none", s |-> "", c |-> <<>>]

-----------------------------------------------------------------------------
(* State                                                                   *)

VARIABLES
  bpmnModdle,        \* name of the graph the current (or last) call converts
  processTreeNodes,  \* the instance field: node id -> [label, concept]
  stack,             \* the call stack of the running parseBpmnModdle
  pc,                \* "idle" between calls, "running" inside one
  outcome,           \* of the last call: [status, tree]
  returned,          \* the ProcessTree objects handed out so far, each with
                     \* the call that returned it and the nodeInfo it showed
                     \* at that moment (nodeInfo is the instance field itself)
  calls,             \* number of parseBpmnModdle calls started
  visited,           \* events of the current call, in order: <<id, how>>
  recorded,          \* ids addProcessNodeInfo stored during the current call
  heapLimit,         \* the heap limit the engine was started with
  stackLimit         \* the stack limit the engine was started with

vars ==
  <<bpmnModdle, processTreeNodes, stack, pc, outcome, returned, calls,
    visited, recorded, heapLimit, stackLimit>>

NoGraph == <<"none", 0>>

G == CHOOSE g \in Graphs : g.name = bpmnModdle
Node(id) == G.nodes[id]

\* Results of a call.
Ok == "ok"
Running == "running"
MalformedGraph == "Startevent is not connected to flow!"
InconsistentJoin == "Something is wrong with the structure of your diagram!"
MissingOperationBinding ==
  "Not all elements are correctly configured with an RPA operation."
\* The TypeError of calling forEach on an outgoing property that is absent.
TypeErrorNoOutgoing ==
  "TypeError: Cannot read properties of undefined (reading 'forEach')"
\* The TypeError of reading targetRef of outgoing[0] of an empty array.
TypeErrorNoTarget ==
  "TypeError: Cannot read properties of undefined (reading 'targetRef')"
\* The TypeError of calling filter on a flowElements property that is absent.
TypeErrorNoFlowElements ==
  "TypeError: Cannot read properties of undefined (reading 'filter')"
\* The TypeError of reading $type of a sourceRef that is absent.
TypeErrorNoSource ==
  "TypeError: Cannot read properties of undefined (reading '$type')"
\* What the engine does when the stack, an array or the heap is full.
RangeErrorCallStack == "RangeError: Maximum call stack size exceeded"
FatalInvalidSize == "Fatal JavaScript invalid size error"
HeapOutOfMemory ==
  "FATAL ERROR: Reached heap limit Allocation failed - JavaScript heap out of memory"

\* A stack frame.  fn is the method; el is its element (the process, the
\* gateway, or nextElementInFlow); term is TerminationElementType; acc is
\* parsedProcess or splittetControlflowBranches; lasts is
\* lastElementsOfBranches; i is the index of the branch forEach is at.
Frame(fn, el, term, acc, lasts, i) ==
  [fn |-> fn, el |-> el, term |-> term, acc |-> acc, lasts |-> lasts, i |-> i]

ProcessFrame(p) == Frame("parseProcess", p, EndEvent, <<>>, <<>>, 0)
FlowFrame(start, term) == Frame("parseProcessFlowUntilElement", start, term, <<>>, <<>>, 0)
SplitFrame(gw) == Frame("parseSplittedControlflow", gw, Node(gw).type, <<>>, <<>>, 1)

Top == stack[Len(stack)]
Caller == stack[Len(stack) - 1]
Pop(n) == SubSeq(stack, 1, Len(stack) - n)

-----------------------------------------------------------------------------
(* The pure parts of the methods                                           *)

\* What find returns when no sequence flow passes the test: undefined.
NoFlow == [type |-> Undefined, sourceRef |-> Undefined, targetRef |-> Undefined]

\* In place of a result: the test of find has thrown, on a sequence flow
\* whose sourceRef is absent.
SourceMissing == [type |-> "thrown", sourceRef |-> Undefined, targetRef |-> Undefined]

IsSequenceFlow(flowElement) == flowElement.type = SequenceFlowType

\* The test of find, on a sequence flow that has a sourceRef.
FromStartEvent(sequenceFlow) == Node(sequenceFlow.sourceRef).type = StartEvent

\* sequenceFlows.find(...): the flows are tested in order up to the first
\* that passes; testing one without sourceRef throws.
RECURSIVE FindStartFlow(_)
FindStartFlow(sequenceFlows) ==
  IF sequenceFlows = <<>> THEN NoFlow
  ELSE IF Head(sequenceFlows).sourceRef = Undefined THEN SourceMissing
  ELSE IF FromStartEvent(Head(sequenceFlows)) THEN Head(sequenceFlows)
  ELSE FindStartFlow(Tail(sequenceFlows))

\* getStartFlowOfProcess on a process that has flowElements: the first
\* sequence flow among them whose source is a start event, or no flow, or
\* the TypeError of the test.
getStartFlowOfProcess(process) ==
  FindStartFlow(SelectSeq(process.flowElements, IsSequenceFlow))

\* The test of parseProcess: !startFlow || !startFlow.targetRef
StartNotConnected(startFlow) == startFlow = NoFlow \/ startFlow.targetRef = Undefined

\* Variant: the test left out.
Configured_Unchecked(element) == TRUE

\* The test of getProcessNodeInfo: "rpa:operation" in element.$attrs
Configured(element) == element.hasOp

\* Variant: the name ignored.
getProcessNodeInfo_IdAsLabel(element) ==
  [label |-> element.id, concept |-> element.op]

getProcessNodeInfo(element) ==
  [label |-> IF element.name # "" THEN element.name ELSE element.id,
   concept |-> element.op]

addProcessNodeInfo(table, element) ==
  [k \in DOMAIN table \cup {element.id} |->
     IF k = element.id THEN getProcessNodeInfo(element) ELSE table[k]]

\* The loop test of parseProcessFlowUntilElement, negated.
FlowEnds(nextElementInFlow, TerminationElementType) ==
  IF nextElementInFlow = Undefined
  THEN TRUE
  ELSE Node(nextElementInFlow).type = TerminationElementType

\* lastElement && lastElement.outgoing: an empty array passes the test too.
HasOutgoing(lastElement) ==
  IF lastElement = Undefined THEN FALSE ELSE Node(lastElement).hasOutgoing

\* lastElement.outgoing[0] is undefined: reading its targetRef throws.
NoFirstOutgoing(lastElement) ==
  HasOutgoing(lastElement) /\ Node(lastElement).outgoing = <<>>

\* The element the loop goes to after a segment that ended in lastElement,
\* when reading it does not throw.
NextElementInFlow(lastElement) ==
  IF HasOutgoing(lastElement)
  THEN Node(lastElement).outgoing[1]
  ELSE Undefined

\* Variant: a Flow group whatever the length.
FlowResult_AlwaysGroup(parsedProcess) ==
  List(<<Obj("Flow", List(parsedProcess))>>)

\* What parseProcessFlowUntilElement returns for parsedProcess.
FlowResult(parsedProcess) ==
  IF Len(parsedProcess) = 1
  THEN List(parsedProcess)
  ELSE List(<<Obj("Flow", List(parsedProcess))>>)

\* What forEach pushes onto splittetControlflowBranches.
BranchFragment(parsedFlowBranch) ==
  IF Len(parsedFlowBranch.c) = 1 THEN parsedFlowBranch.c[1] ELSE parsedFlowBranch

\* lastElementsOfBranches after a branch that ended in lastElement.
PushLast(lastElementsOfBranches, lastElement) ==
  IF lastElement # Undefined
  THEN Append(lastElementsOfBranches, lastElement)
  ELSE lastElementsOfBranches

\* Variant: only the second element compared with the first.
SameJoin_FirstTwo(lastElementsOfBranches) ==
  Len(lastElementsOfBranches) < 2
    \/ lastElementsOfBranches[2] = lastElementsOfBranches[1]

\* lastElementsOfBranches.every(element => element.id === [0].id)
SameJoin(lastElementsOfBranches) ==
  \A k \in 1..Len(lastElementsOfBranches) :
    lastElementsOfBranches[k] = lastElementsOfBranches[1]

\* lastElementsOfBranches[0]
JoinElement(lastElementsOfBranches) ==
  IF lastElementsOfBranches = <<>> THEN Undefined ELSE lastElementsOfBranches[1]

\* The test of parseProcess: process.$attrs && "rpa:operation" in process.$attrs
OperationBearing(process) == process.hasOp

\* The key parseProcess files the walked flow under.
ProcessKey(process) == IF OperationBearing(process) THEN process.id ELSE "Process"

\* Variant: the end event of the process, which no flow leaves.
ProcessLastElement_EndEvent(process) ==
  IF process.type = SubProcessType THEN "SE" ELSE "E"

\* The element parseProcess returns as last element: the process itself.
ProcessLastElement(process) == process.id

-----------------------------------------------------------------------------
(* Steps                                                                   *)

Init ==
  /\ bpmnModdle = NoGraph
  /\ processTreeNodes = [k \in {} |-> getProcessNodeInfo(End("E"))]
  /\ stack = <<>>
  /\ pc = "idle"
  /\ outcome = [status |-> "none", tree |-> NoTree]
  /\ returned = <<>>
  /\ calls = 0
  /\ visited = <<>>
  /\ recorded = {}
  /\ heapLimit \in {MinHeap, MaxHeap}
  /\ stackLimit \in {MinStackDepth, MaxStackDepth}

\* An Error is thrown and nothing catches it: parseBpmnModdle is left without
\* a result.  The node infos stored so far stay in the instance field.
Throw(message) ==
  /\ pc' = "idle"
  /\ stack' = <<>>
  /\ outcome' = [status |-> message, tree |-> NoTree]
  /\ UNCHANGED <<bpmnModdle, returned, calls, heapLimit, stackLimit>>

\* The engine gives up on the process: nothing runs after that.
Abort(message) ==
  /\ pc' = "aborted"
  /\ stack' = <<>>
  /\ outcome' = [status |-> message, tree |-> NoTree]
  /\ UNCHANGED <<bpmnModdle, returned, calls, heapLimit, stackLimit>>

\* The heap slots a tree fragment takes: an array one and one for each of
\* its elements, an object one and one for its property.  A string is an
\* id of the graph, or a literal: the walk allocates nothing for it.
RECURSIVE Allocated(_)
RECURSIVE AllocatedIn(_)
Allocated(t) ==
  IF t.t = "array" THEN 1 + Len(t.c) + AllocatedIn(t.c)
  ELSE IF t.t = "object" THEN 2 + AllocatedIn(t.c)
  ELSE 0

AllocatedIn(xs) ==
  IF xs = <<>> THEN 0 ELSE Allocated(Head(xs)) + AllocatedIn(Tail(xs))

\* What a call keeps alive: parseProcess its processTree; the other two
\* their arrays (parsedProcess; splittetControlflowBranches and
\* lastElementsOfBranches) with every element and the fragments in them.
FrameHeap(frame) ==
  IF frame.fn = "parseProcess" THEN 1
  ELSE IF frame.fn = "parseProcessFlowUntilElement"
  THEN 1 + Len(frame.acc) + AllocatedIn(frame.acc)
  ELSE 2 + Len(frame.acc) + Len(frame.lasts) + AllocatedIn(frame.acc)

\* What the running calls keep alive on the heap.  The table of node infos
\* is not counted: it holds at most one entry per node of the graphs
\* converted and is part of what the limit leaves to the walk.
RECURSIVE HeapUsed(_)
HeapUsed(frames) ==
  IF frames = <<>> THEN 0 ELSE FrameHeap(Head(frames)) + HeapUsed(Tail(frames))

\* The pair [tree part, last element] a method returns, alive until the
\* caller has taken it apart.
ReturnedPair == Allocated(List(<<Str(""), Str("")>>))

\* The heap cannot hold newStack together with what is passing.
HeapFull(newStack, passing) == HeapUsed(newStack) + passing > heapLimit

\* The step leaves newStack behind, unless the heap cannot hold what it
\* allocates: then the engine ends the process.
Allocate(newStack, passing) ==
  IF HeapFull(newStack, passing)
  THEN Abort(HeapOutOfMemory)
  ELSE /\ stack' = newStack
       /\ UNCHANGED <<bpmnModdle, pc, outcome, returned, calls, heapLimit, stackLimit>>

\* A method is called: newStack is the stack with its frame on top, unless
\* the stack is full.
Enter(newStack) ==
  IF Len(newStack) > stackLimit
  THEN Throw(RangeErrorCallStack)
  ELSE Allocate(newStack, 0)

\* The loop of the frame after [treePart, lastElement] has come back from
\* parseProcessSegment: treePart pushed, and the element to go on with.
Continue(frame, treePart, lastElement) ==
  [frame EXCEPT !.acc = Append(@, treePart),
                !.el = NextElementInFlow(lastElement)]

\* The rest of an iteration of the loop of the frame, rest being the stack
\* below it.  The push ends the process when parsedProcess is full or the
\* heap cannot hold one more element; after it, reading the target of the
\* first outgoing flow throws when the array is empty.
Iterate(rest, frame, treePart, lastElement) ==
  LET pushed == rest \o <<[frame EXCEPT !.acc = Append(@, treePart)]>>
  IN IF Len(frame.acc) >= MaxArrayLength
     THEN Abort(FatalInvalidSize)
     ELSE IF HeapFull(pushed, ReturnedPair)
     THEN Abort(HeapOutOfMemory)
     ELSE IF NoFirstOutgoing(lastElement)
     THEN Throw(TypeErrorNoTarget)
     ELSE /\ stack' = rest \o <<Continue(frame, treePart, lastElement)>>
          /\ UNCHANGED <<bpmnModdle, pc, outcome, returned, calls, heapLimit, stackLimit>>

\* The events of a flow that stops at its element.
StopEvents(frame) ==
  IF frame.el = Undefined THEN <<>> ELSE <<<<frame.el, "stop">>>>

\* parseBpmnModdle(bpmnModdle) is called: process = rootElements[0], and
\* parseProcess(process) is entered.
ParseBpmnModdle(g) ==
  /\ pc = "idle"
  /\ calls < MaxCalls
  /\ bpmnModdle' = g.name
  /\ calls' = calls + 1
  /\ pc' = "running"
  /\ stack' = <<ProcessFrame(g.root)>>
  /\ outcome' = [status |-> Running, tree |-> NoTree]
  /\ visited' = <<>>
  /\ recorded' = {}
  /\ UNCHANGED <<processTreeNodes, returned, heapLimit, stackLimit>>

\* parseProcess up to its call of parseProcessFlowUntilElement.  Without
\* flowElements, process.flowElements.filter throws.
ParseProcess ==
  /\ pc = "running"
  /\ Top.fn = "parseProcess"
  /\ Top.i = 0
  /\ IF ~Node(Top.el).hasFlowElements
     THEN Throw(TypeErrorNoFlowElements)
     ELSE LET startFlow == getStartFlowOfProcess(Node(Top.el))
          IN IF startFlow = SourceMissing
             THEN Throw(TypeErrorNoSource)
             ELSE IF StartNotConnected(startFlow)
             THEN Throw(MalformedGraph)
             ELSE Enter(Pop(1) \o <<[Top EXCEPT !.i = 1],
                                     FlowFrame(startFlow.targetRef, EndEvent)>>)
  /\ UNCHANGED <<processTreeNodes, visited, recorded>>

\* The while loop of parseProcessFlowUntilElement is at an element it has to
\* resolve.
AtSegment ==
  /\ pc = "running"
  /\ Top.fn = "parseProcessFlowUntilElement"
  /\ ~FlowEnds(Top.el, Top.term)

IsGateway(type) == type \in {ParallelGateway, ExclusiveGateway}

\* One iteration of the loop on a task.
ResolveTask ==
  /\ AtSegment
  /\ Node(Top.el).type = TaskType
  /\ LET currentElement == Node(Top.el)
     IN /\ visited' = Append(visited, <<Top.el, "segment">>)
        /\ IF ~Configured(currentElement)
           THEN /\ Throw(MissingOperationBinding)
                /\ UNCHANGED <<processTreeNodes, recorded>>
           ELSE /\ processTreeNodes' = addProcessNodeInfo(processTreeNodes, currentElement)
                /\ recorded' = recorded \cup {Top.el}
                /\ Iterate(Pop(1), Top, Str(Top.el), Top.el)

\* The loop is at a gateway: parseSplittedControlflow is entered.  When the
\* gateway has no outgoing property, gatewayElement.outgoing.forEach throws;
\* on an empty array forEach runs over no branch.
ResolveGateway ==
  /\ AtSegment
  /\ IsGateway(Node(Top.el).type)
  /\ visited' = Append(visited, <<Top.el, "segment">>)
  /\ IF ~Node(Top.el).hasOutgoing
     THEN Throw(TypeErrorNoOutgoing)
     ELSE Enter(Append(stack, SplitFrame(Top.el)))
  /\ UNCHANGED <<processTreeNodes, recorded>>

\* The loop is at a sub-process: parseProcess is entered on it.
ResolveSubProcess ==
  /\ AtSegment
  /\ Node(Top.el).type = SubProcessType
  /\ visited' = Append(visited, <<Top.el, "segment">>)
  /\ Enter(Append(stack, ProcessFrame(Top.el)))
  /\ UNCHANGED <<processTreeNodes, recorded>>

\* One iteration of the loop on an element of any other kind: ["", undefined].
ResolveOther ==
  /\ AtSegment
  /\ Node(Top.el).type # TaskType
  /\ ~IsGateway(Node(Top.el).type)
  /\ Node(Top.el).type # SubProcessType
  /\ visited' = Append(visited, <<Top.el, "segment">>)
  /\ Iterate(Pop(1), Top, Str(""), Undefined)
  /\ UNCHANGED <<processTreeNodes, recorded>>

\* forEach of parseSplittedControlflow starts on the next outgoing flow.
ParseBranch ==
  /\ pc = "running"
  /\ Top.fn = "parseSplittedControlflow"
  /\ Top.i <= Len(Node(Top.el).outgoing)
  /\ Enter(Append(stack, FlowFrame(Node(Top.el).outgoing[Top.i], Top.term)))
  /\ UNCHANGED <<processTreeNodes, visited, recorded>>

\* The loop of parseProcessFlowUntilElement is over.
FlowDone ==
  /\ pc = "running"
  /\ Top.fn = "parseProcessFlowUntilElement"
  /\ FlowEnds(Top.el, Top.term)

\* The flow of a branch returns into forEach.
BranchParsed ==
  /\ FlowDone
  /\ Caller.fn = "parseSplittedControlflow"
  /\ visited' = visited \o StopEvents(Top)
  /\ Allocate(Pop(2) \o
       <<[Caller EXCEPT !.acc = Append(@, BranchFragment(FlowResult(Top.acc))),
                        !.lasts = PushLast(@, Top.el),
                        !.i = @ + 1]>>, ReturnedPair)
  /\ UNCHANGED <<processTreeNodes, recorded>>

\* parseSplittedControlflow after forEach, and the rest of the iteration of
\* the loop that called it.
JoinBranches ==
  /\ pc = "running"
  /\ Top.fn = "parseSplittedControlflow"
  /\ Top.i > Len(Node(Top.el).outgoing)
  /\ LET gatewayElement == Node(Top.el)
     IN IF ~SameJoin(Top.lasts)
        THEN /\ Throw(InconsistentJoin)
             /\ UNCHANGED <<processTreeNodes, recorded>>
        ELSE IF ~Configured(gatewayElement)
        THEN /\ Throw(MissingOperationBinding)
             /\ UNCHANGED <<processTreeNodes, recorded>>
        ELSE /\ processTreeNodes' = addProcessNodeInfo(processTreeNodes, gatewayElement)
             /\ recorded' = recorded \cup {Top.el}
             /\ Iterate(Pop(2), Caller, Obj(Top.el, List(Top.acc)),
                        JoinElement(Top.lasts))
  /\ UNCHANGED visited

\* What parseProcess does after the flow of the process has returned.
ProcessTreeOf(process, treePart) == Obj(ProcessKey(process), treePart)

NodeInfosAfter(process) ==
  IF OperationBearing(process)
  THEN addProcessNodeInfo(processTreeNodes, process)
  ELSE processTreeNodes

RecordedAfter(process) ==
  IF OperationBearing(process) THEN recorded \cup {process.id} ELSE recorded

\* The flow of a sub-process returns: parseProcess finishes, and the loop
\* that resolved the sub-process finishes its iteration.
SubProcessParsed ==
  /\ FlowDone
  /\ Caller.fn = "parseProcess"
  /\ Len(stack) > 2
  /\ LET process == Node(Caller.el)
     IN /\ processTreeNodes' = NodeInfosAfter(process)
        /\ recorded' = RecordedAfter(process)
        /\ visited' = visited \o StopEvents(Top) \o <<<<Caller.el, "process">>>>
        /\ Iterate(Pop(3), stack[Len(stack) - 2],
                   ProcessTreeOf(process, FlowResult(Top.acc)),
                   ProcessLastElement(process))

\* The flow of the root process returns: parseProcess finishes and
\* parseBpmnModdle returns {tree, nodeInfo: this.processTreeNodes}.
ProcessParsed ==
  /\ FlowDone
  /\ Caller.fn = "parseProcess"
  /\ Len(stack) = 2
  /\ LET process == Node(Caller.el)
         parsedProcess == ProcessTreeOf(process, FlowResult(Top.acc))
     IN /\ processTreeNodes' = NodeInfosAfter(process)
        /\ recorded' = RecordedAfter(process)
        /\ visited' = visited \o StopEvents(Top) \o <<<<Caller.el, "process">>>>
        /\ outcome' = [status |-> Ok, tree |-> parsedProcess]
        /\ returned' = Append(returned,
                              [call |-> calls, graph |-> bpmnModdle, tree |-> parsedProcess,
                               nodeInfo |-> NodeInfosAfter(process)])
  /\ pc' = "idle"
  /\ stack' = <<>>
  /\ UNCHANGED <<bpmnModdle, calls, heapLimit, stackLimit>>

Next ==
  \/ \E g \in Graphs : ParseBpmnModdle(g)
  \/ ParseProcess
  \/ ResolveTask
  \/ ResolveGateway
  \/ ResolveSubProcess
  \/ ResolveOther
  \/ ParseBranch
  \/ BranchParsed
  \/ JoinBranches
  \/ SubProcessParsed
  \/ ProcessParsed

Spec == Init /\ [][Next]_vars

-----------------------------------------------------------------------------
(* Vocabulary of the properties                                            *)

\* The last call has returned a ProcessTree.
Returned == pc = "idle" /\ outcome.status = Ok

\* The last call has ended, one way or the other.
Finished == pc = "idle" /\ calls > 0

\* The last call was on graph g and has returned.
ReturnedFor(g) == Returned /\ bpmnModdle = g.name

\* The last call has thrown: no tree came back and no ProcessTree was handed out.
Failed(message) ==
  /\ pc = "idle"
  /\ stack = <<>>
  /\ outcome = [status |-> message, tree |-> NoTree]
  /\ \A k \in 1..Len(returned) : returned[k].call # calls

Strs(ids) == [k \in 1..Len(ids) |-> Str(ids[k])]
FlowGroup(xs) == Obj("Flow", List(xs))

\* Every array inside a tree, as a sequence of fragments.
RECURSIVE Arrays(_)
Arrays(t) ==
  (IF t.t = "array" THEN {t.c} ELSE {})
    \cup UNION {Arrays(t.c[k]) : k \in 1..Len(t.c)}

\* Every string inside a tree.
RECURSIVE Leaves(_)
Leaves(t) ==
  (IF t.t = "string" THEN {t.s} ELSE {})
    \cup UNION {Leaves(t.c[k]) : k \in 1..Len(t.c)}

\* The ids the current call has resolved as a segment, in order.
IsSegment(ev) == ev[2] = "segment"
Segments == SelectSeq(visited, IsSegment)

-----------------------------------------------------------------------------
(* C2: linear processes and the collapsing rule                            *)

LinearTree(n) ==
  Obj("Process",
      IF n = 1
      THEN List(<<Str(TaskIds[1])>>)
      ELSE List(<<FlowGroup([k \in 1..n |-> Str(TaskIds[k])])>>))

\* No group with a single child anywhere below t: a Flow group never holds
\* exactly one fragment, a fragment is never a bare array, and the value of
\* a process key is an array of exactly one fragment.
RECURSIVE Collapsed(_)
Collapsed(t) ==
  IF t.t = "string" THEN TRUE
  ELSE IF t.t # "object" \/ t.c[1].t # "array" THEN FALSE
  ELSE LET xs == t.c[1].c
       IN /\ \A k \in 1..Len(xs) : xs[k].t # "array" /\ Collapsed(xs[k])
          /\ t.s = "Flow" => Len(xs) # 1
          /\ (t.s = "Process" \/ (t.s # "Flow" /\ ~IsGateway(Node(t.s).type)))
               => Len(xs) = 1

\* C2: a linear process Start -> T1 -> ... -> Tn -> End converts to
\* {"Process": [T1]} when n = 1 and to {"Process": [{"Flow": [T1, ..., Tn]}]}
\* otherwise, ids in visiting order; and the same rule holds at every level
\* of every returned tree: the body of a sub-process and a branch of a split
\* are the single fragment when there is exactly one, else a Flow group.
C2_LinearCollapse ==
  /\ \A n \in 0..MaxTasks :
       (Finished /\ bpmnModdle = Linear(n).name)
         => (Returned /\ outcome.tree = LinearTree(n))
  /\ Returned => Collapsed(outcome.tree)
  /\ ReturnedFor(GXor)
       => outcome.tree =
            Obj("Process", List(<<FlowGroup(
              <<Str("A"),
                Obj("X1", List(<<Str("B"), FlowGroup(Strs(<<"C", "D">>))>>)),
                Str("F")>>)>>))
  /\ ReturnedFor(GSubNoOp)
       => outcome.tree =
            Obj("Process", List(<<FlowGroup(
              <<Obj("Process", List(<<Str("U")>>)), Str("B")>>)>>))

\* A linear process of one task and one of several tasks have both returned.
C2_Witness ==
  /\ Len(returned) = 2
  /\ returned[1].tree = Obj("Process", List(<<Str("T1")>>))
  /\ returned[2].tree = Obj("Process", List(<<FlowGroup(Strs(<<"T1", "T2">>))>>))

-----------------------------------------------------------------------------
(* C3: sub-processes                                                       *)

\* Some array of the tree holds, for sub-process sub, one object under its
\* key, directly followed by the leaf of the task next, which does not occur
\* inside the object.
SiblingAfter(tree, sub, next) ==
  \E xs \in Arrays(tree) : \E k \in 1..Len(xs) :
    /\ xs[k].t = "object"
    /\ xs[k].s = (IF Node(sub).hasOp THEN sub ELSE "Process")
    /\ k < Len(xs)
    /\ xs[k + 1] = Str(next)
    /\ next \notin Leaves(xs[k])

\* The sub-processes the returned call resolved whose first outgoing flow
\* leads to a task.
SubProcessesBeforeTask ==
  {k \in 1..Len(Segments) :
     /\ Node(Segments[k][1]).type = SubProcessType
     /\ Node(Segments[k][1]).hasOutgoing
     /\ Node(Segments[k][1]).outgoing # <<>>
     /\ Node(Segments[k][1]).outgoing[1] # Undefined
     /\ Node(Node(Segments[k][1]).outgoing[1]).type = TaskType}

\* C3: a sub-process contributes one fragment to the list of its parent, an
\* object with the single key of the sub-process (its id if it carries an
\* operation, "Process" otherwise) over the flow walked inside it; the parent
\* walk goes on from the first outgoing flow of the sub-process node, so the
\* node after it is the next sibling and is not inside the fragment.
C3_SubProcess ==
  /\ Returned =>
       \A k \in SubProcessesBeforeTask :
         SiblingAfter(outcome.tree, Segments[k][1], Node(Segments[k][1]).outgoing[1])
  /\ ReturnedFor(GSubOp)
       => outcome.tree =
            Obj("Process", List(<<FlowGroup(
              <<Str("A"),
                Obj("Sub", List(<<FlowGroup(Strs(<<"U", "V">>))>>)),
                Str("B")>>)>>))
  /\ ReturnedFor(GSubNoOp)
       => outcome.tree =
            Obj("Process", List(<<FlowGroup(
              <<Obj("Process", List(<<Str("U")>>)), Str("B")>>)>>))
  /\ ReturnedFor(GSubLast)
       => outcome.tree =
            Obj("Process", List(<<FlowGroup(
              <<Str("A"), Obj("Sub", List(<<FlowGroup(<<>>)>>))>>)>>))

\* Both kinds of sub-process have been converted: one keyed by its id, one
\* by "Process", each followed by task B.
C3_Witness ==
  /\ Len(returned) = 2
  /\ returned[1].graph = GSubOp.name
  /\ returned[2].graph = GSubNoOp.name
  /\ Returned
  /\ SubProcessesBeforeTask # {}
  /\ SiblingAfter(returned[2].tree, "Sub", "B")

-----------------------------------------------------------------------------
(* C6: branches that end at different nodes                                *)

\* parseSplittedControlflow has walked every branch of its gateway.
BranchesWalked ==
  /\ pc = "running"
  /\ Top.fn = "parseSplittedControlflow"
  /\ Top.i > Len(Node(Top.el).outgoing)

\* The nodes the walks of the branches stopped at, dead ends left out.
BranchEnds == {Top.lasts[k] : k \in 1..Len(Top.lasts)}

GraphsOfDifferentJoins ==
  {GInconsistent.name, GInconsistentLast.name, GInconsistentDeadEnd.name,
   GParInPar.name}

\* Once the branches of a split are walked, the call fails with
\* InconsistentJoin, without any tree, if those that did not dead-end
\* stopped at two or more different nodes, and goes on without that error
\* if they all stopped at the same node.
C6_Step ==
  BranchesWalked =>
    IF Cardinality(BranchEnds) >= 2
    THEN Failed(InconsistentJoin)' /\ returned' = returned
    ELSE outcome'.status # InconsistentJoin

\* Seen from the end of the call: the graphs whose branches stop at
\* different nodes are exactly those that fail with InconsistentJoin.
C6_Outcome ==
  Finished =>
    (bpmnModdle \in GraphsOfDifferentJoins <=> Failed(InconsistentJoin))

\* C6: if the branches of a split that do not dead-end stop at two or more
\* different nodes (by id), the call fails with InconsistentJoin and returns
\* no tree; if they all stop at the same node, that split does not raise it.
C6_InconsistentJoin == [][C6_Step]_vars /\ []C6_Outcome

\* Branches A and C reached J1 and J2, branch B dead-ended, and the call
\* failed.
C6_Witness ==
  /\ Failed(InconsistentJoin)
  /\ bpmnModdle = GInconsistentDeadEnd.name
  /\ visited[Len(visited)] = <<"J2", "stop">>

-----------------------------------------------------------------------------
(* C7: a task without operation                                            *)

UnboundTask(ev) ==
  /\ ev[2] = "segment"
  /\ Node(ev[1]).type = TaskType
  /\ ~Node(ev[1]).hasOp

\* C7: when the walk resolves a task without the operation attribute, the
\* call fails there with MissingOperationBinding: it returns no tree, and
\* the task is the last node the call resolves.
C7_MissingOperation ==
  \A k \in 1..Len(visited) :
    UnboundTask(visited[k]) =>
      /\ k = Len(visited)
      /\ Failed(MissingOperationBinding)
      /\ visited[k][1] \notin recorded

\* The call failed at task U inside a sub-process, after resolving A and Sub.
C7_Witness ==
  /\ Failed(MissingOperationBinding)
  /\ bpmnModdle = GMissingSub.name
  /\ visited = <<<<"A", "segment">>, <<"Sub", "segment">>, <<"U", "segment">>>>

-----------------------------------------------------------------------------
(* C8: a start event that is not connected                                 *)

\* parseProcess has been entered on a process and has not looked for the
\* start flow yet.
ProcessEntered ==
  /\ pc = "running"
  /\ Top.fn = "parseProcess"
  /\ Top.i = 0

\* The sequence flows of a process that leave a start event, in order.
StartFlows(process) ==
  {k \in 1..Len(process.flowElements) :
     /\ process.flowElements[k].type = SequenceFlowType
     /\ process.flowElements[k].sourceRef # Undefined
     /\ Node(process.flowElements[k].sourceRef).type = StartEvent}

\* There is no such flow (as in a process that holds nothing), or the first
\* one has no target.
NoStartEdge(process) ==
  \/ StartFlows(process) = {}
  \/ \E k \in StartFlows(process) :
       /\ \A j \in StartFlows(process) : k <= j
       /\ process.flowElements[k].targetRef = Undefined

\* The lookup of the start flow has raised an error of its own.
LookupRaised == outcome.status \in {TypeErrorNoFlowElements, TypeErrorNoSource}

\* C8: at the root process and at every sub-process the walk enters, if no
\* sequence flow leaves a start event, or that flow has no target, the call
\* fails with MalformedGraph before any node of that level is resolved and
\* without a tree; the lookup of the start flow only reports that there is
\* none and never raises, and a process with a connected start event does
\* not fail with MalformedGraph.
C8_MalformedGraph ==
  [][ProcessEntered =>
       /\ ~LookupRaised'
       /\ IF NoStartEdge(Node(Top.el))
          THEN Failed(MalformedGraph)' /\ visited' = visited /\ returned' = returned
               /\ processTreeNodes' = processTreeNodes
          ELSE outcome'.status # MalformedGraph]_vars

-----------------------------------------------------------------------------
(* C10: branches that dead-end                                             *)

SplitFrames == {k \in 1..Len(stack) : stack[k].fn = "parseSplittedControlflow"}

\* C10: a branch that dead-ends (at a node without outgoing flow, whether
\* the property is absent or the array empty, at a flow without target, or
\* at a node of an unsupported kind) raises no error.  In every split being
\* resolved each branch walked so far has its fragment at its position, and
\* only nodes, never a missing one, are kept for the same-join check.  The
\* split hands on the node the first non-dead-ending branch stopped at (the
\* walk goes on behind it), or nothing when every branch dead-ends (the
\* enclosing walk ends behind the split).
C10_DeadEnds ==
  /\ \A k \in SplitFrames :
       /\ Len(stack[k].acc) = stack[k].i - 1
       /\ \A j \in 1..Len(stack[k].lasts) : stack[k].lasts[j] # Undefined
  /\ (Finished /\ bpmnModdle = GDeadEndOne.name)
       => /\ Returned
          /\ outcome.tree =
               Obj("Process", List(<<FlowGroup(
                 <<Obj("P1", List(Strs(<<"A", "B">>))), Str("C")>>)>>))
  /\ (Finished /\ bpmnModdle = GDeadEndEmpty.name)
       => /\ Returned
          /\ outcome.tree =
               Obj("Process", List(<<FlowGroup(
                 <<Obj("P1", List(Strs(<<"A", "B">>))), Str("C")>>)>>))
  /\ (Finished /\ bpmnModdle = GDeadEndFirst.name)
       => /\ Returned
          /\ outcome.tree =
               Obj("Process", List(<<FlowGroup(
                 <<Obj("P1", List(<<Str("B"), FlowGroup(Strs(<<"D", "A">>))>>)),
                   Str("C")>>)>>))
  /\ (Finished /\ bpmnModdle = GDeadEndKinds.name)
       => /\ Returned
          /\ outcome.tree =
               Obj("Process", List(<<
                 Obj("P1", List(<<Str("A"), FlowGroup(<<>>), Str("")>>))>>))
  /\ (Finished /\ bpmnModdle = GDeadEndAll.name)
       => /\ Returned
          /\ outcome.tree =
               Obj("Process", List(<<
                 Obj("X1", List(<<Str("A"), FlowGroup(Strs(<<"B", "">>))>>))>>))

-----------------------------------------------------------------------------
(* C4: the node infos of a call                                            *)

InfoOf(element) ==
  [label |-> IF element.name = "" THEN element.id ELSE element.name,
   concept |-> element.op]

HasInfo(id) ==
  id \in DOMAIN processTreeNodes /\ processTreeNodes[id] = InfoOf(Node(id))

IsTaskOrGateway(id) == Node(id).type = TaskType \/ IsGateway(Node(id).type)

\* The tasks and gateways the call resolved as a segment, and the processes
\* with an operation it parsed.
ResolvedWithInfo ==
  {visited[k][1] : k \in {j \in 1..Len(visited) :
     \/ visited[j][2] = "segment" /\ IsTaskOrGateway(visited[j][1])
     \/ visited[j][2] = "process" /\ Node(visited[j][1]).hasOp}}

\* C4 as claimed: after a successful call the table has an entry for every
\* task, split gateway and join gateway the walk met and for every process
\* with an operation, none for a process without one, each with label = name
\* or id and concept = operation.
C4_Claimed ==
  Returned =>
    \A k \in 1..Len(visited) :
      /\ (visited[k][2] \in {"segment", "stop"} /\ IsTaskOrGateway(visited[k][1]))
           => HasInfo(visited[k][1])
      /\ (visited[k][2] = "process" /\ Node(visited[k][1]).hasOp)
           => HasInfo(visited[k][1])
      /\ (visited[k][2] = "process" /\ ~Node(visited[k][1]).hasOp)
           => visited[k][1] \notin recorded

\* C4, amended: a successful call stores an entry for exactly the tasks and
\* gateways it resolved as a segment (a gateway as a split) and the processes
\* and sub-processes with an operation it parsed; a gateway at which a walk
\* only stopped (the join) and a process without operation get none.  Each
\* entry has label = name, or id without a name, and concept = operation.
C4_NodeInfo ==
  Returned =>
    /\ recorded = ResolvedWithInfo
    /\ \A id \in recorded : HasInfo(id)

\* On a fresh parser Start -> P1 -> {A, B} -> J1 -> End has returned: the
\* walks stopped at J1, and the table holds P1, A and B only.
C4_Witness ==
  /\ ReturnedFor(GPar)
  /\ calls = 1
  /\ \E k \in 1..Len(visited) : visited[k] = <<"J1", "stop">>
  /\ DOMAIN processTreeNodes = {"P1", "A", "B"}
  /\ processTreeNodes["P1"].label = "Fork"

-----------------------------------------------------------------------------
(* C5: one table per call                                                  *)

\* C5: the table a call returns holds only what that call recorded (it is
\* the table of a fresh parser on the same graph), and a ProcessTree handed
\* out earlier still shows the nodeInfo it was returned with.
C5_TablePerCall ==
  /\ Returned => DOMAIN processTreeNodes = recorded
  /\ \A k \in 1..Len(returned) : returned[k].nodeInfo = processTreeNodes

-----------------------------------------------------------------------------
(* C9: termination                                                         *)

\* The engine has stopped the call: an array, the call stack or the heap
\* was full.
Exhausted ==
  outcome.status \in {RangeErrorCallStack, FatalInvalidSize, HeapOutOfMemory}

\* C9: every call of parseBpmnModdle comes to its end by itself, returning a
\* tree or throwing from a step of the walk, because each step advances
\* along an edge or ends the current walk: the walk never goes on until the
\* engine stops it.
C9_Terminates == ~Exhausted

-----------------------------------------------------------------------------
(* C1: split and join                                                      *)

RefCollapse(xs) == IF Len(xs) = 1 THEN xs[1] ELSE FlowGroup(xs)

\* The fragments of the flow from node start up to node stop, in a graph
\* whose splits are closed by the joins joinOf names.
RECURSIVE RefFlow(_, _)
RECURSIVE RefSplit(_)
RefFlow(start, stop) ==
  IF start = stop \/ start = Undefined THEN <<>>
  ELSE IF Node(start).type = TaskType
  THEN <<Str(start)>> \o RefFlow(Node(start).outgoing[1], stop)
  ELSE IF start \in DOMAIN G.joinOf
  THEN <<RefSplit(start)>> \o RefFlow(Node(G.joinOf[start]).outgoing[1], stop)
  ELSE <<>>

RefSplit(split) ==
  Obj(split,
      List([k \in 1..Len(Node(split).outgoing) |->
              RefCollapse(RefFlow(Node(split).outgoing[k], G.joinOf[split]))]))

\* Every object inside a tree.
RECURSIVE Objects(_)
Objects(t) ==
  (IF t.t = "object" THEN {t} ELSE {})
    \cup UNION {Objects(t.c[k]) : k \in 1..Len(t.c)}

\* C1: for a split with N outgoing flows whose branches all meet at a join
\* of its kind, also when it lies inside a branch of another split of that
\* kind, the tree holds one object keyed by the id of the split over N
\* fragments, the i-th being the collapsed flow from the target of the i-th
\* outgoing flow up to the join.
C1_SplitFragments ==
  (Finished /\ DOMAIN G.joinOf # {}) =>
    /\ Returned
    /\ \A split \in DOMAIN G.joinOf :
         {o \in Objects(outcome.tree) : o.s = split} = {RefSplit(split)}

====
